---- MODULE Spec2Model ----
(***************************************************************************)
(* Model of harmya/collision-quad (src/src/main.rs): a quadtree over a     *)
(* rectangular arena and the per-frame particle loop of main that uses it. *)
(*                                                                         *)
(* Numbers.  The program computes in f64.  The model computes exactly on   *)
(* two grids and leaves f64 rounding out:                                  *)
(*   - lengths (positions, widths, velocities per unit time) are integers  *)
(*     counting 1/Unit of a pixel, Unit a power of two large enough that   *)
(*     every halving done by subdivide is exact;                           *)
(*   - dimensionless reals (r, forces, directions, frame time, affinity)   *)
(*     are integers counting 1/Scale; a product or quotient of two of them *)
(*     is rounded toward zero (Quot).                                      *)
(* Option<T> is a sequence of length 0 (None) or 1 (Some).                 *)
(***************************************************************************)
EXTENDS Integers, Sequences, FiniteSets, TLC

VARIABLES quadtree, particles, near_particles, range, ret, call, aborted,
          pc, i, t, ticks, next_time_position, force_call

vars == <<quadtree, particles, near_particles, range, ret, call, aborted,
          pc, i, t, ticks, next_time_position, force_call>>

(***************************************************************************)
(* Bounds of the model.                                                    *)
(***************************************************************************)
\* inserts a client of the tree makes between two clears
MaxInserts == 4
\* largest capacity a client passes to QuadTree::new
MaxCapacity == 2
\* particles seeded by main (num_particles in the program is 1000)
MaxParticles == 5
\* frames main runs
MaxTicks == 2
\* r runs over 0, RStep, ..., RSteps * RStep
RSteps == 24

\* the depth of recursion of insert that the model follows.  The n-th insert
\* into a tree of capacity >= 1 stops at depth n - 1 at most (every node it
\* passes is full), so below MaxInserts + 1 inserts only a recursion with no
\* base case gets this deep.
StackDepth == MaxInserts

Unit == 2 ^ StackDepth
Scale == 10 ^ 3

Px(n) == n * Unit
Half == Unit \div 2

None == << >>
Some(v) == << v >>

Abs(a) == IF a < 0 THEN -a ELSE a
Quot(a, b) == IF a >= 0 THEN a \div b ELSE -((-a) \div b)

\* the elements of a sequence with their multiplicities
BagOf(s) ==
    [e \in {s[k] : k \in DOMAIN s} |-> Cardinality({k \in DOMAIN s : s[k] = e})]

(***************************************************************************)
(* Data.                                                                   *)
(***************************************************************************)
Position(x, y) == [x |-> x, y |-> y]
Velocity(x, y) == [x |-> x, y |-> y]
Particle(position, color, velocity) ==
    [position |-> position, color |-> color, velocity |-> velocity]
Rectangle(position, width, height) ==
    [height |-> height, width |-> width, position |-> position]

Colors == {"RED", "GREEN", "BLUE", "YELLOW"}

(***************************************************************************)
(* QuadTree.                                                               *)
(***************************************************************************)
new(boundary, capacity) ==
    [boundary |-> boundary,
     capacity |-> capacity,
     points |-> << >>,
     is_divided |-> FALSE,
     top_left |-> None,
     top_right |-> None,
     bottom_left |-> None,
     bottom_right |-> None]

\* subdivide with the right-hand children left at the parent's x
subdivide_no_offset(self) ==
    LET x == self.boundary.position.x
        y == self.boundary.position.y
        w == self.boundary.width
        h == self.boundary.height
        top_left == new(Rectangle(Position(x, y), w \div 2, h \div 2), self.capacity)
        top_right == new(Rectangle(Position(x, y), w \div 2, h \div 2), self.capacity)
        bottom_left ==
            new(Rectangle(Position(x, y + h \div 2), w \div 2, h \div 2), self.capacity)
        bottom_right ==
            new(Rectangle(Position(x, y + h \div 2), w \div 2, h \div 2), self.capacity)
    IN  [self EXCEPT !.top_left = Some(top_left),
                     !.top_right = Some(top_right),
                     !.bottom_left = Some(bottom_left),
                     !.bottom_right = Some(bottom_right),
                     !.is_divided = TRUE]

\* subdivide that builds the children with capacity 0 in place of the parent's
subdivide_zero_capacity(self) ==
    LET x == self.boundary.position.x
        y == self.boundary.position.y
        w == self.boundary.width
        h == self.boundary.height
    IN  [self EXCEPT
            !.top_left = Some(new(Rectangle(Position(x, y), w \div 2, h \div 2), 0)),
            !.top_right =
                Some(new(Rectangle(Position(x + w \div 2, y), w \div 2, h \div 2), 0)),
            !.bottom_left =
                Some(new(Rectangle(Position(x, y + h \div 2), w \div 2, h \div 2), 0)),
            !.bottom_right =
                Some(new(Rectangle(Position(x + w \div 2, y + h \div 2), w \div 2, h \div 2), 0)),
            !.is_divided = TRUE]

subdivide(self) ==
    LET x == self.boundary.position.x
        y == self.boundary.position.y
        w == self.boundary.width
        h == self.boundary.height
        top_left == new(Rectangle(Position(x, y), w \div 2, h \div 2), self.capacity)
        top_right ==
            new(Rectangle(Position(x + w \div 2, y), w \div 2, h \div 2), self.capacity)
        bottom_left ==
            new(Rectangle(Position(x, y + h \div 2), w \div 2, h \div 2), self.capacity)
        bottom_right ==
            new(Rectangle(Position(x + w \div 2, y + h \div 2), w \div 2, h \div 2),
                self.capacity)
    IN  [self EXCEPT !.top_left = Some(top_left),
                     !.top_right = Some(top_right),
                     !.bottom_left = Some(bottom_left),
                     !.bottom_right = Some(bottom_right),
                     !.is_divided = TRUE]

\* within_boundary without the test against the right edge
within_boundary_no_right_edge(self, point) ==
    LET x == point.x
        y == point.y
        bx == self.boundary.position.x
        by == self.boundary.position.y
        h == self.boundary.height
    IN  x >= bx /\ y >= by /\ y <= by + h

within_boundary(self, point) ==
    LET x == point.x
        y == point.y
        bx == self.boundary.position.x
        by == self.boundary.position.y
        w == self.boundary.width
        h == self.boundary.height
    IN  x >= bx /\ x <= bx + w /\ y >= by /\ y <= by + h

\* insert returns the node after the call, the Option it returns, and whether
\* the recursion reached StackDepth frames (the process then dies of stack
\* overflow; nothing of the result is used).
InsertResult(self, r, overflow) == [self |-> self, ret |-> r, overflow |-> overflow]

\* insert that takes a particle while points.len() <= capacity
RECURSIVE insert_over_capacity(_, _, _)
insert_over_capacity(self, particle, depth) ==
    IF depth >= StackDepth THEN InsertResult(self, None, TRUE)
    ELSE IF particle = None THEN InsertResult(self, None, FALSE)
    ELSE IF ~within_boundary(self, particle[1].position)
    THEN InsertResult(self, Some(particle[1]), FALSE)
    ELSE IF Len(self.points) <= self.capacity
    THEN InsertResult([self EXCEPT !.points = Append(@, particle[1])], None, FALSE)
    ELSE LET s == IF ~self.is_divided THEN subdivide(self) ELSE self
             r1 == insert_over_capacity(s.top_left[1], particle, depth + 1)
             r2 == insert_over_capacity(s.top_right[1], r1.ret, depth + 1)
             r3 == insert_over_capacity(s.bottom_left[1], r2.ret, depth + 1)
             r4 == insert_over_capacity(s.bottom_right[1], r3.ret, depth + 1)
         IN  InsertResult([s EXCEPT !.top_left = Some(r1.self),
                                    !.top_right = Some(r2.self),
                                    !.bottom_left = Some(r3.self),
                                    !.bottom_right = Some(r4.self)],
                          r4.ret,
                          r1.overflow \/ r2.overflow \/ r3.overflow \/ r4.overflow)

\* insert that hands the particle itself, not the previous child's return
\* value, to each of the four children
RECURSIVE insert_into_every_child(_, _, _)
insert_into_every_child(self, particle, depth) ==
    IF depth >= StackDepth THEN InsertResult(self, None, TRUE)
    ELSE IF particle = None THEN InsertResult(self, None, FALSE)
    ELSE IF ~within_boundary(self, particle[1].position)
    THEN InsertResult(self, Some(particle[1]), FALSE)
    ELSE IF Len(self.points) < self.capacity
    THEN InsertResult([self EXCEPT !.points = Append(@, particle[1])], None, FALSE)
    ELSE LET s == IF ~self.is_divided THEN subdivide(self) ELSE self
             r1 == insert_into_every_child(s.top_left[1], particle, depth + 1)
             r2 == insert_into_every_child(s.top_right[1], particle, depth + 1)
             r3 == insert_into_every_child(s.bottom_left[1], particle, depth + 1)
             r4 == insert_into_every_child(s.bottom_right[1], particle, depth + 1)
         IN  InsertResult([s EXCEPT !.top_left = Some(r1.self),
                                    !.top_right = Some(r2.self),
                                    !.bottom_left = Some(r3.self),
                                    !.bottom_right = Some(r4.self)],
                          IF r1.ret = None \/ r2.ret = None \/ r3.ret = None
                          THEN None ELSE r4.ret,
                          r1.overflow \/ r2.overflow \/ r3.overflow \/ r4.overflow)

RECURSIVE insert(_, _, _)
insert(self, particle, depth) ==
    IF depth >= StackDepth THEN InsertResult(self, None, TRUE)
    ELSE IF particle = None THEN InsertResult(self, None, FALSE)
    ELSE IF ~within_boundary(self, particle[1].position)
    THEN InsertResult(self, Some(particle[1]), FALSE)
    ELSE IF Len(self.points) < self.capacity
    THEN InsertResult([self EXCEPT !.points = Append(@, particle[1])], None, FALSE)
    ELSE LET s == IF ~self.is_divided THEN subdivide(self) ELSE self
             r1 == insert(s.top_left[1], particle, depth + 1)
             r2 == insert(s.top_right[1], r1.ret, depth + 1)
             r3 == insert(s.bottom_left[1], r2.ret, depth + 1)
             r4 == insert(s.bottom_right[1], r3.ret, depth + 1)
         IN  InsertResult([s EXCEPT !.top_left = Some(r1.self),
                                    !.top_right = Some(r2.self),
                                    !.bottom_left = Some(r3.self),
                                    !.bottom_right = Some(r4.self)],
                          r4.ret,
                          r1.overflow \/ r2.overflow \/ r3.overflow \/ r4.overflow)

\* does_range_overlap comparing the range's left and top edge, not its far edges
does_range_overlap_near_edge(self, rng) ==
    LET x == rng.position.x
        y == rng.position.y
        bx == self.boundary.position.x
        by == self.boundary.position.y
        bw == self.boundary.width
        bh == self.boundary.height
    IN  x >= bx /\ x <= bx + bw /\ y >= by /\ y <= by + bh

does_range_overlap(self, rng) ==
    LET x == rng.position.x
        y == rng.position.y
        w == rng.width
        h == rng.height
        bx == self.boundary.position.x
        by == self.boundary.position.y
        bw == self.boundary.width
        bh == self.boundary.height
    IN  x + w >= bx /\ x <= bx + bw /\ y + h >= by /\ y <= by + bh

\* the filter of query's loop over self.points
query_points(self, rng) ==
    SelectSeq(self.points, LAMBDA point : within_boundary(self, point.position))

RECURSIVE query(_, _)
query(self, rng) ==
    IF ~does_range_overlap(self, rng) THEN << >>
    ELSE query_points(self, rng)
         \o (IF self.is_divided
             THEN query(self.top_left[1], rng) \o query(self.top_right[1], rng)
                  \o query(self.bottom_left[1], rng) \o query(self.bottom_right[1], rng)
             ELSE << >>)

\* clear_quadtree that empties the node's points and leaves it divided
clear_quadtree_keeps_children(self) == [self EXCEPT !.points = << >>]

clear_quadtree(self) ==
    [self EXCEPT !.points = << >>,
                 !.is_divided = FALSE,
                 !.top_left = None,
                 !.top_right = None,
                 !.bottom_left = None,
                 !.bottom_right = None]

(***************************************************************************)
(* The arena of main: a 1200 x 800 window, the tree over (5,5)..(w,h).     *)
(***************************************************************************)
width == Px(1200)
height == Px(800)
radius == Px(5)
speed == 5 * Scale
MainCapacity == 4

RootBoundary ==
    Rectangle(Position(Px(5), Px(5)), width - Px(5), height - Px(5))

\* a position is inside rectangle rect, edges included
Inside(rect, p) ==
    /\ rect.position.x <= p.x /\ p.x <= rect.position.x + rect.width
    /\ rect.position.y <= p.y /\ p.y <= rect.position.y + rect.height

(***************************************************************************)
(* SpecTree: the QuadTree under an arbitrary client.  The client builds a  *)
(* tree with new, then inserts, queries and clears in any order; particles *)
(* is the client's list of what it passed to insert since the last clear   *)
(* (as main does at lines 333-334).  ret and near_particles hold the value *)
(* returned by the latest insert and query, range the query's argument;    *)
(* an insert drops the result of the query before it and a query that of   *)
(* the insert before it.                                                   *)
(***************************************************************************)
Zero == Velocity(0, 0)

TreePositions ==
    { Position(Px(100), Px(100)),
      Position(Px(602) + Half, Px(402) + Half),   \* the centre of the root
      Position(Px(602) + Half, Px(100)),          \* on the vertical mid line
      Position(Px(900), Px(600)),
      Position(Px(1200), Px(800)),                \* the far corner
      Position(Px(1300), Px(400)) }               \* outside the root

TreeRegions ==
    { RootBoundary,
      Rectangle(Position(Px(95), Px(95)), Px(10), Px(10)),
      Rectangle(Position(Px(590), Px(390)), Px(20), Px(20)),
      Rectangle(Position(Px(850), Px(550)), Px(400), Px(300)),
      Rectangle(Position(Px(1250), Px(0)), Px(100), Px(100)) }

Idle ==
    /\ pc = "client" /\ i = 0 /\ t = 0 /\ ticks = 0
    /\ next_time_position = Position(0, 0) /\ force_call = None

InitTree ==
    /\ \E capacity \in 0..MaxCapacity : quadtree = new(RootBoundary, capacity)
    /\ particles = << >>
    /\ near_particles = << >>
    /\ range = RootBoundary
    /\ ret = None
    /\ call = "new"
    /\ aborted = FALSE
    /\ Idle

TreeInsert(particle) ==
    /\ ~aborted
    /\ Len(particles) < MaxInserts
    /\ LET res == insert(quadtree, Some(particle), 0)
       IN  /\ quadtree' = IF res.overflow THEN quadtree ELSE res.self
           /\ ret' = res.ret
           /\ aborted' = res.overflow
    /\ particles' = Append(particles, particle)
    /\ call' = "insert"
    /\ near_particles' = << >>
    /\ range' = RootBoundary
    /\ UNCHANGED <<pc, i, t, ticks, next_time_position, force_call>>

TreeQuery(rng) ==
    /\ ~aborted
    /\ near_particles' = query(quadtree, rng)
    /\ range' = rng
    /\ call' = "query"
    /\ ret' = None
    /\ UNCHANGED <<quadtree, particles, aborted, pc, i, t, ticks,
                   next_time_position, force_call>>

TreeClear ==
    /\ ~aborted
    /\ quadtree' = clear_quadtree(quadtree)
    /\ particles' = << >>
    /\ call' = "clear"
    /\ UNCHANGED <<near_particles, range, ret, aborted, pc, i, t, ticks,
                   next_time_position, force_call>>

NextTree ==
    \/ \E p \in TreePositions : TreeInsert(Particle(p, "RED", Zero))
    \/ \E rng \in TreeRegions : TreeQuery(rng)
    \/ TreeClear

SpecTree == InitTree /\ [][NextTree]_vars

\* the particles the client passed to insert whose position the root accepts
Accepted == SelectSeq(particles, LAMBDA p : Inside(quadtree.boundary, p.position))

\* how often e occurs in sequence s
Count(s, e) == Cardinality({k \in DOMAIN s : s[k] = e})

\* C1: query(R) returns only particles whose own position lies inside R.
QuerySoundness ==
    call = "query" =>
        \A k \in DOMAIN near_particles : Inside(range, near_particles[k].position)

\* C3: with capacity >= 1, after any inserts the query over the full root
\* boundary returns exactly the multiset of the inserted particles that lie
\* inside the root boundary: none lost, none twice.
PartitionContainment ==
    (quadtree.capacity >= 1 /\ ~aborted) =>
        BagOf(query(quadtree, quadtree.boundary)) = BagOf(Accepted)

PartitionContainmentWitness ==
    /\ quadtree.capacity >= 1 /\ quadtree.is_divided
    /\ call = "query" /\ range = quadtree.boundary
    /\ Len(near_particles) = MaxInserts
    /\ Count(near_particles, Particle(Position(Px(602) + Half, Px(402) + Half), "RED", Zero)) = 2
    /\ BagOf(near_particles) = BagOf(Accepted)

\* C4: with capacity >= 1, query(R) returns every inserted particle (as often
\* as it was inserted) whose position lies inside R and inside the root; the
\* overlap test prunes no node that stores one.
QueryCompleteness ==
    (call = "query" /\ quadtree.capacity >= 1) =>
        \A k \in DOMAIN Accepted :
            Inside(range, Accepted[k].position) =>
                Count(near_particles, Accepted[k]) = Count(Accepted, Accepted[k])

QueryCompletenessWitness ==
    /\ call = "query" /\ quadtree.capacity >= 1 /\ quadtree.is_divided
    /\ range # quadtree.boundary
    /\ ~does_range_overlap(quadtree.top_left[1], range)
    /\ \E k \in DOMAIN Accepted :
          /\ Inside(range, Accepted[k].position)
          /\ Count(near_particles, Accepted[k]) = 1
          /\ Count(quadtree.points, Accepted[k]) = 0

\* C9: no partition of capacity < 1 exists, so no insert runs against one.
CapacityValidated ==
    call = "insert" => quadtree.capacity >= 1

(***************************************************************************)
(* The force law.                                                          *)
(***************************************************************************)
colour_attraction_factor_matrix ==
    [a \in 0..3 |-> [b \in 0..3 |->
        IF a = b THEN (8 * Scale) \div 10 ELSE -((8 * Scale) \div 10)]]

color_to_index(color) ==
    IF color = "RED" THEN 0
    ELSE IF color = "GREEN" THEN 1
    ELSE IF color = "BLUE" THEN 2
    ELSE 3

BETA == (3 * Scale) \div 10

\* get_force with the middle band closed at r = BETA
get_force_closed_band(r, p1_color, p2_color) ==
    LET attraction_factor ==
            colour_attraction_factor_matrix[color_to_index(p1_color)][color_to_index(p2_color)]
    IN  IF r < BETA THEN Quot(r * Scale, BETA) - Scale
        ELSE IF BETA <= r /\ r < Scale
        THEN Quot((Scale - Abs(2 * r - BETA) - BETA) * attraction_factor, Scale)
        ELSE 0

\* get_force with the core repulsion scaled by the affinity, like the middle band
get_force_scaled_core(r, p1_color, p2_color) ==
    LET attraction_factor ==
            colour_attraction_factor_matrix[color_to_index(p1_color)][color_to_index(p2_color)]
    IN  IF r < BETA THEN Quot((Quot(r * Scale, BETA) - Scale) * attraction_factor, Scale)
        ELSE IF BETA < r /\ r < Scale
        THEN Quot((Scale - Abs(2 * r - BETA) - BETA) * attraction_factor, Scale)
        ELSE 0

get_force(r, p1_color, p2_color) ==
    LET color_matrix == colour_attraction_factor_matrix
        c_1_idx == color_to_index(p1_color)
        c_2_idx == color_to_index(p2_color)
        attraction_factor == color_matrix[c_1_idx][c_2_idx]
    IN  IF r < BETA THEN Quot(r * Scale, BETA) - Scale
        ELSE IF BETA < r /\ r < Scale
        THEN Quot((Scale - Abs(2 * r - BETA) - BETA) * attraction_factor, Scale)
        ELSE 0

(***************************************************************************)
(* SpecForce: get_force applied to r = 0, RStep, ..., RSteps * RStep and   *)
(* every pair of colours; force_call is the latest call and its result.    *)
(***************************************************************************)
RStep == Scale \div 20

RGrid == {k * RStep : k \in 0..RSteps}

InitForce ==
    /\ quadtree = new(RootBoundary, MainCapacity)
    /\ particles = << >>
    /\ near_particles = << >>
    /\ range = RootBoundary
    /\ ret = None
    /\ call = "new"
    /\ aborted = FALSE
    /\ Idle

CallForce(r, p1_color, p2_color) ==
    /\ force_call' = Some([r |-> r, p1_color |-> p1_color, p2_color |-> p2_color,
                           force |-> get_force(r, p1_color, p2_color)])
    /\ UNCHANGED <<quadtree, particles, near_particles, range, ret, call, aborted,
                   pc, i, t, ticks, next_time_position>>

NextForce ==
    \E r \in RGrid, p1_color \in Colors, p2_color \in Colors :
        CallForce(r, p1_color, p2_color)

SpecForce == InitForce /\ [][NextForce]_vars

\* the affinity of the pair of colours of the latest call
Affinity == IF force_call[1].p1_color = force_call[1].p2_color
            THEN (8 * Scale) \div 10 ELSE -((8 * Scale) \div 10)

\* the middle-band value (1 - |2r - beta| - beta) * a at the latest call's r
MiddleBand == Quot((Scale - Abs(2 * force_call[1].r - BETA) - BETA) * Affinity, Scale)

\* C7 as claimed: for beta <= r < 1, r = beta included, get_force returns
\* (1 - |2r - beta| - beta) * a.
ForceMiddleBandClosed ==
    (force_call # None /\ BETA <= force_call[1].r /\ force_call[1].r < Scale) =>
        force_call[1].force = MiddleBand

\* C7 as amended: for beta < r < 1 get_force returns (1 - |2r - beta| - beta) * a,
\* and at r = beta it returns 0.
ForceMiddleBandOpen ==
    /\ (force_call # None /\ BETA < force_call[1].r /\ force_call[1].r < Scale) =>
           force_call[1].force = MiddleBand
    /\ (force_call # None /\ force_call[1].r = BETA) => force_call[1].force = 0

ForceMiddleBandWitness ==
    /\ force_call # None
    /\ force_call[1].r = BETA + RStep
    /\ force_call[1].p1_color = "BLUE" /\ force_call[1].p2_color = "YELLOW"
    /\ force_call[1].force = -((24 * Scale) \div 100)

\* C8: get_force returns 0 for r >= 1; for r < beta it returns r/beta - 1,
\* which is <= 0 and the same for every pair of colours.
ForceBoundary ==
    force_call # None =>
        /\ force_call[1].r >= Scale => force_call[1].force = 0
        /\ force_call[1].r < BETA =>
               /\ force_call[1].force = Quot(force_call[1].r * Scale, BETA) - Scale
               /\ force_call[1].force <= 0
               /\ \A c1 \in Colors, c2 \in Colors :
                      get_force(force_call[1].r, c1, c2) = force_call[1].force

ForceBoundaryWitness ==
    /\ force_call # None
    /\ force_call[1].r = BETA - RStep
    /\ force_call[1].p1_color # force_call[1].p2_color
    /\ force_call[1].force < 0

\* C16 as claimed: for beta <= r < 1 the force has the sign of the affinity,
\* >= 0 between particles of one colour and <= 0 between colours.
ForceSignFollowsAffinity ==
    (force_call # None /\ BETA <= force_call[1].r /\ force_call[1].r < Scale) =>
        IF Affinity > 0 THEN force_call[1].force >= 0 ELSE force_call[1].force <= 0

(***************************************************************************)
(* main: seeding, then one frame after another.                            *)
(***************************************************************************)
threshold == Px(100)

\* the largest s with s * s <= n, for lo * lo <= n < hi * hi
RECURSIVE SqrtBetween(_, _, _)
SqrtBetween(n, lo, hi) ==
    IF hi - lo <= 1 THEN lo
    ELSE LET mid == (lo + hi) \div 2
         IN  IF mid * mid <= n THEN SqrtBetween(n, mid, hi) ELSE SqrtBetween(n, lo, mid)

Sqrt(n) == SqrtBetween(n, 0, 46341)

move_particle(particle, dt) ==
    [particle EXCEPT
        !.position.x = particle.position.x + Quot(particle.velocity.x * dt, Scale),
        !.position.y = particle.position.y + Quot(particle.velocity.y * dt, Scale)]

\* the query window main builds for particle at frame time dt (lines 343-355)
projected(particle, dt) ==
    Position(particle.position.x + Quot(particle.velocity.x * dt, Scale),
             particle.position.y + Quot(particle.velocity.y * dt, Scale))

window(particle, dt) ==
    Rectangle(Position(projected(particle, dt).x - Quot(15 * radius, 10),
                       projected(particle, dt).y - Quot(15 * radius, 10)),
              Quot(15 * radius, 10),
              Quot(15 * radius, 10))

\* what one near_particle adds to (final_force_x, final_force_y) (lines 362-375)
pair_force(particle, near_particle) ==
    IF near_particle.position.x # particle.position.x
       /\ near_particle.position.y # particle.position.y
    THEN LET dx == near_particle.position.x - particle.position.x
             dy == near_particle.position.y - particle.position.y
             distance_squared == dx * dx + dy * dy
             distance == Sqrt(distance_squared)
             direction_x == Quot(dx * Scale, distance)
             direction_y == Quot(dy * Scale, distance)
         IN  IF distance < threshold
             THEN LET force == get_force(Quot(distance * Scale, threshold),
                                         particle.color, near_particle.color)
                  IN  [x |-> Quot(force * direction_x, Scale),
                       y |-> Quot(force * direction_y, Scale)]
             ELSE [x |-> 0, y |-> 0]
    ELSE [x |-> 0, y |-> 0]

\* the loop over near_particles (lines 357-376)
RECURSIVE final_force(_, _)
final_force(particle, near) ==
    IF near = << >> THEN [x |-> 0, y |-> 0]
    ELSE LET rest == final_force(particle, Tail(near))
             one == pair_force(particle, Head(near))
         IN  [x |-> one.x + rest.x, y |-> one.y + rest.y]

\* new_velocity without the reflection off the walls
new_velocity_no_reflection(particle, near, dt) ==
    LET f == final_force(particle, near)
        final_acceleration_x == Quot(f.x * threshold, Scale)
        final_acceleration_y == Quot(f.y * threshold, Scale)
    IN  Velocity(Quot(90 * particle.velocity.x, 100) + Quot(final_acceleration_x * dt, Scale),
                 Quot(90 * particle.velocity.y, 100) + Quot(final_acceleration_y * dt, Scale))

\* lines 378-389: acceleration, damping, reflection off the walls
new_velocity(particle, near, dt) ==
    LET f == final_force(particle, near)
        final_acceleration_x == Quot(f.x * threshold, Scale)
        final_acceleration_y == Quot(f.y * threshold, Scale)
        vx == Quot(90 * particle.velocity.x, 100) + Quot(final_acceleration_x * dt, Scale)
        vy == Quot(90 * particle.velocity.y, 100) + Quot(final_acceleration_y * dt, Scale)
    IN  Velocity(IF particle.position.x < radius + Px(5)
                    \/ particle.position.x > width - radius - Px(5)
                 THEN -vx ELSE vx,
                 IF particle.position.y < radius + Px(5)
                    \/ particle.position.y > height - radius - Px(5)
                 THEN -vy ELSE vy)

\* line 392: the moved particle goes back into the tree
reinsert_skipped(tree, particle) == InsertResult(tree, None, FALSE)

reinsert(tree, particle) == insert(tree, Some(particle), 0)

\* what the seeding loop draws (positions in [100, width - 100], a colour)
SeedChoices ==
    { [position |-> Position(Px(300), Px(300)), color |-> "RED"],
      [position |-> Position(Px(303), Px(304)), color |-> "GREEN"],
      [position |-> Position(Px(330), Px(340)), color |-> "RED"] }

\* get_frame_time(), in 1/Scale of a second
FrameTimes == {16, 33}

Init ==
    /\ quadtree = new(RootBoundary, MainCapacity)
    /\ particles = << >>
    /\ near_particles = << >>
    /\ range = RootBoundary
    /\ ret = None
    /\ call = "new"
    /\ aborted = FALSE
    /\ pc = "seeding"
    /\ i = 0
    /\ t = 0
    /\ ticks = 0
    /\ next_time_position = Position(0, 0)
    /\ force_call = None

\* one pass of the seeding loop (lines 319-335); the model seeds any number of
\* particles from 1 to MaxParticles
Seed(choice) ==
    /\ pc = "seeding"
    /\ Len(particles) < MaxParticles
    /\ LET particle == Particle(choice.position, choice.color, Velocity(0, 0))
           res == insert(quadtree, Some(particle), 0)
       IN  /\ particles' = Append(particles, particle)
           /\ quadtree' = res.self
           /\ ret' = res.ret
           /\ aborted' = res.overflow
    /\ call' = "insert"
    /\ UNCHANGED <<near_particles, range, pc, i, t, ticks, next_time_position, force_call>>

\* the head of the frame loop (lines 339-341)
BeginFrame(frame_time) ==
    /\ ~aborted
    /\ \/ pc = "seeding" /\ Len(particles) >= 1
       \/ pc = "frame"
    /\ ticks < MaxTicks
    /\ t' = Quot(frame_time * speed, Scale)
    /\ quadtree' = clear_quadtree(quadtree)
    /\ call' = "clear"
    /\ i' = 1
    /\ pc' = "particles"
    /\ UNCHANGED <<particles, near_particles, range, ret, aborted, ticks,
                   next_time_position, force_call>>

\* one pass of the loop over particles (lines 342-394)
UpdateParticle ==
    /\ ~aborted
    /\ pc = "particles"
    /\ i <= Len(particles)
    /\ LET particle == particles[i]
           near == query(quadtree, window(particle, t))
           moved == move_particle(
                        [particle EXCEPT !.velocity = new_velocity(particle, near, t)], t)
           res == reinsert(quadtree, moved)
       IN  /\ next_time_position' = projected(particle, t)
           /\ range' = window(particle, t)
           /\ near_particles' = near
           /\ particles' = [particles EXCEPT ![i] = moved]
           /\ quadtree' = res.self
           /\ ret' = res.ret
           /\ aborted' = res.overflow
    /\ call' = "insert"
    /\ i' = i + 1
    /\ UNCHANGED <<pc, t, ticks, force_call>>

\* the end of the frame (line 396)
NextFrame ==
    /\ ~aborted
    /\ pc = "particles"
    /\ i > Len(particles)
    /\ pc' = "frame"
    /\ ticks' = ticks + 1
    /\ UNCHANGED <<quadtree, particles, near_particles, range, ret, call, aborted,
                   i, t, next_time_position, force_call>>

Next ==
    \/ \E choice \in SeedChoices : Seed(choice)
    \/ \E frame_time \in FrameTimes : BeginFrame(frame_time)
    \/ UpdateParticle
    \/ NextFrame

Spec == Init /\ [][Next]_vars

\* the particles already updated in the running frame, in list order
Updated == SubSeq(particles, 1, i - 1)

\* an updated particle's position before its move in the running frame
PreTick(particle) ==
    Position(particle.position.x - Quot(particle.velocity.x * t, Scale),
             particle.position.y - Quot(particle.velocity.y * t, Scale))

\* C2: after clear_quadtree and before the first query of a frame, every
\* particle of the list is in the partition with its pre-tick state.
TickSnapshot ==
    (pc = "particles" /\ i = 1) =>
        BagOf(query(quadtree, quadtree.boundary)) = BagOf(particles)

\* C5: the window built for a particle is centred on its projected next
\* position and reaches 1.5 * radius to each side of it in x and in y.
WindowCentred ==
    (pc = "particles" /\ i >= 2) =>
        /\ range.position.x = next_time_position.x - Quot(15 * radius, 10)
        /\ range.position.x + range.width = next_time_position.x + Quot(15 * radius, 10)
        /\ range.position.y = next_time_position.y - Quot(15 * radius, 10)
        /\ range.position.y + range.height = next_time_position.y + Quot(15 * radius, 10)

\* velocity v is not zero and has a positive component along (dx, dy)
Toward(v, dx, dy) == v.x * dx + v.y * dy > 0

\* C6: two particles of one colour, 50 apart, at rest: after one frame each
\* has a velocity that is not zero and points toward the other.
EndToEndAttraction ==
    (/\ pc = "frame" /\ ticks = 1 /\ Len(particles) = 2
     /\ particles[1].color = particles[2].color
     /\ LET dx == PreTick(particles[2]).x - PreTick(particles[1]).x
            dy == PreTick(particles[2]).y - PreTick(particles[1]).y
        IN  dx * dx + dy * dy = Px(50) * Px(50))
    => LET dx == PreTick(particles[2]).x - PreTick(particles[1]).x
           dy == PreTick(particles[2]).y - PreTick(particles[1]).y
       IN  /\ Toward(particles[1].velocity, dx, dy)
           /\ Toward(particles[2].velocity, -dx, -dy)

\* C10: inside a frame, when a particle's query runs the partition holds the
\* updated copy of every particle before it in the list (those inside the
\* root), and the query returns each of them whose updated position lies in
\* the window.
IntraTickReinsertion ==
    (pc = "particles" /\ i >= 2) =>
        /\ BagOf(query(quadtree, quadtree.boundary))
               = BagOf(SelectSeq(Updated, LAMBDA p : Inside(quadtree.boundary, p.position)))
        /\ \A j \in 1..(i - 2) :
               (Inside(range, particles[j].position)
                /\ Inside(quadtree.boundary, particles[j].position))
               => Count(near_particles, particles[j]) >= 1

IntraTickReinsertionWitness ==
    /\ pc = "particles" /\ i >= 3 /\ quadtree.is_divided
    /\ \E j \in 1..(i - 2) :
          /\ particles[j].velocity # Velocity(0, 0)
          /\ Inside(range, particles[j].position)
          /\ Count(near_particles, particles[j]) >= 1

(***************************************************************************)
(* SpecEdge: main again, seeded at the low corner of the seeding area      *)
(* (gen_range(100.0, ..) can return 100.0) and run with stalled frames     *)
(* (get_frame_time() has no upper limit).                                  *)
(***************************************************************************)
EdgeSeedChoices ==
    { [position |-> Position(Px(100), Px(100)), color |-> "RED"],
      [position |-> Position(Px(104), Px(103)), color |-> "GREEN"],
      [position |-> Position(Px(100), Px(104)), color |-> "GREEN"] }

\* get_frame_time() of a stalled frame, in 1/Scale of a second
StallFrameTimes == {200, 250}

NextEdge ==
    \/ \E choice \in EdgeSeedChoices : Seed(choice)
    \/ \E frame_time \in StallFrameTimes : BeginFrame(frame_time)
    \/ UpdateParticle
    \/ NextFrame

SpecEdge == Init /\ [][NextEdge]_vars

\* the damped and accelerated velocity of lines 381-382, before any reflection,
\* of the particle about to be updated, given what its query returned
Unreflected(particle, near) ==
    LET f == final_force(particle, near)
    IN  Velocity(Quot(90 * particle.velocity.x, 100)
                    + Quot(Quot(f.x * threshold, Scale) * t, Scale),
                 Quot(90 * particle.velocity.y, 100)
                    + Quot(Quot(f.y * threshold, Scale) * t, Scale))

\* C11: in every pass of the particle loop the x-velocity is negated exactly
\* when the position before the move has x < radius + 5 or x > width - radius - 5
\* (the y-velocity likewise against height), and the position is then
\* integrated with the resulting velocity.
ReflectionUsesPreMovePosition ==
    [][(pc = "particles" /\ i <= Len(particles) /\ i' = i + 1) =>
        LET p == particles[i]
            q == particles'[i]
            v == Unreflected(p, near_particles')
            near_x == p.position.x < radius + Px(5) \/ p.position.x > width - radius - Px(5)
            near_y == p.position.y < radius + Px(5) \/ p.position.y > height - radius - Px(5)
        IN  /\ q.velocity.x = IF near_x THEN -v.x ELSE v.x
            /\ q.velocity.y = IF near_y THEN -v.y ELSE v.y
            /\ q.position.x = p.position.x + Quot(q.velocity.x * t, Scale)
            /\ q.position.y = p.position.y + Quot(q.velocity.y * t, Scale)]_vars

\* a particle that was left of radius + 5 and moving left with nothing near
\* it has been updated: its x-velocity now points right
ReflectionWitness ==
    /\ pc = "particles" /\ i >= 2 /\ near_particles = << >>
    /\ PreTick(particles[i - 1]).x < radius + Px(5)
    /\ PreTick(particles[i - 1]).y >= radius + Px(5)
    /\ particles[i - 1].velocity.x > 0
    /\ particles[i - 1].velocity.y < 0

\* C19: a neighbour that shares exactly one coordinate with the particle is
\* still compared: in the first frame (all velocities zero before it) a
\* particle whose query returned one such neighbour, closer than threshold and
\* at a distance where get_force is not 0, ends its update with a velocity
\* that is not zero.
SharedCoordinateCompared ==
    (/\ pc = "particles" /\ ticks = 0 /\ i >= 2 /\ Len(near_particles) = 1
     /\ LET p == PreTick(particles[i - 1])
            q == near_particles[1].position
        IN  /\ (q.x = p.x) # (q.y = p.y)
            /\ Abs(q.x - p.x) + Abs(q.y - p.y) < threshold
            /\ get_force(Quot((Abs(q.x - p.x) + Abs(q.y - p.y)) * Scale, threshold),
                         particles[i - 1].color, near_particles[1].color) # 0)
    => particles[i - 1].velocity # Velocity(0, 0)

\* C20: every particle's position stays inside the root boundary, and no
\* re-insert at the end of a pass of the particle loop is rejected.
PositionsStayInside ==
    /\ \A k \in DOMAIN particles : Inside(quadtree.boundary, particles[k].position)
    /\ (pc = "particles" /\ i >= 2) => ret = None

(***************************************************************************)
(* The shape of the tree (claims checked under SpecTree).                  *)
(***************************************************************************)
\* the four children of a divided node, in the order insert and query use
Children(node) ==
    <<node.top_left[1], node.top_right[1], node.bottom_left[1], node.bottom_right[1]>>

\* every node of the tree under node, node included
RECURSIVE Nodes(_)
Nodes(node) ==
    {node} \cup (IF node.is_divided
                 THEN UNION {Nodes(Children(node)[k]) : k \in 1..4}
                 ELSE {})

\* every particle stored in the tree under node
RECURSIVE Stored(_)
Stored(node) ==
    node.points \o (IF node.is_divided
                    THEN Stored(Children(node)[1]) \o Stored(Children(node)[2])
                         \o Stored(Children(node)[3]) \o Stored(Children(node)[4])
                    ELSE << >>)

\* the particle handed to the latest insert
Latest == particles[Len(particles)]

\* C12: insert of a particle whose position is outside the root boundary
\* returns that particle and leaves the whole partition as it was.
PartitionRejection ==
    [][(/\ call' = "insert" /\ Len(particles') = Len(particles) + 1
        /\ ~Inside(quadtree.boundary, particles'[Len(particles')].position))
       => (/\ ret' = Some(particles'[Len(particles')])
           /\ quadtree' = quadtree
           /\ ~aborted')]_vars

PartitionRejectionWitness ==
    /\ call = "insert" /\ quadtree.is_divided /\ Len(Stored(quadtree)) >= 2
    /\ ~Inside(quadtree.boundary, Latest.position)
    /\ ret = Some(Latest)

\* C13: clear_quadtree leaves a single empty undivided leaf with the boundary
\* and the capacity it had; the query over the full boundary then returns
\* nothing, and a second clear changes nothing.
ClearResets ==
    [][call' = "clear" =>
        (/\ quadtree' = new(quadtree.boundary, quadtree.capacity)
         /\ query(quadtree', quadtree'.boundary) = << >>
         /\ clear_quadtree(quadtree') = quadtree')]_vars

\* a tree that held more particles than one node takes has been cleared
ClearResetsWitness ==
    /\ call = "clear" /\ quadtree.capacity >= 1
    /\ range = quadtree.boundary /\ Len(near_particles) > quadtree.capacity
    /\ quadtree = new(RootBoundary, quadtree.capacity)

\* the four children of node quarter its boundary: half its width and height
\* each, its capacity, and laid edge to edge from its origin to its far corner
Quartered(node) ==
    LET b == node.boundary
        tl == node.top_left[1]
        tr == node.top_right[1]
        bl == node.bottom_left[1]
        br == node.bottom_right[1]
    IN  /\ \A k \in 1..4 :
              /\ 2 * Children(node)[k].boundary.width = b.width
              /\ 2 * Children(node)[k].boundary.height = b.height
              /\ Children(node)[k].capacity = node.capacity
        /\ tl.boundary.position = b.position
        /\ tr.boundary.position =
               Position(tl.boundary.position.x + tl.boundary.width, b.position.y)
        /\ bl.boundary.position =
               Position(b.position.x, tl.boundary.position.y + tl.boundary.height)
        /\ br.boundary.position = Position(tr.boundary.position.x, bl.boundary.position.y)
        /\ br.boundary.position.x + br.boundary.width = b.position.x + b.width
        /\ br.boundary.position.y + br.boundary.height = b.position.y + b.height

\* C14: every divided node's children quarter it: half the width and height,
\* the parent's capacity, no gap and no overlap (shared edges apart).
QuarteringInvariant ==
    \A node \in Nodes(quadtree) : node.is_divided => Quartered(node)

QuarteringWitness ==
    /\ quadtree.is_divided /\ ~aborted
    /\ \E k \in 1..4 : /\ Children(quadtree)[k].is_divided
                       /\ Quartered(Children(quadtree)[k])
                       /\ Children(quadtree)[k].boundary.position # quadtree.boundary.position

Max(a, b) == IF a >= b THEN a ELSE b

\* the depth of the deepest node under node that stores a particle (the node
\* itself has depth 0); -1 when none stores one
RECURSIVE PointDepth(_)
PointDepth(node) ==
    LET below == IF node.is_divided
                 THEN Max(Max(PointDepth(Children(node)[1]), PointDepth(Children(node)[2])),
                          Max(PointDepth(Children(node)[3]), PointDepth(Children(node)[4])))
                 ELSE -1
    IN  IF below >= 0 THEN below + 1
        ELSE IF node.points # << >> THEN 0 ELSE -1

\* more than capacity particles, all with the same coordinates inside the root,
\* have been handed to insert of a tree of capacity >= 1
Coincident ==
    /\ call = "insert" /\ quadtree.capacity >= 1
    /\ Len(particles) > quadtree.capacity
    /\ \A k \in DOMAIN particles :
          particles[k] = particles[1] /\ Inside(quadtree.boundary, particles[k].position)

\* C15 as claimed: such an insert recurses without end.
CoincidentInsertDiverges == Coincident => aborted

\* C15 as amended: such an insert returns None; subdivide leaves the parent's
\* points in place and creates empty children, so the k-th coincident
\* particle is stored at depth (k - 1) div capacity and all of them are in
\* the tree.
CoincidentInsertTerminates ==
    Coincident =>
        /\ ~aborted
        /\ ret = None
        /\ Stored(quadtree) = particles
        /\ PointDepth(quadtree) = (Len(particles) - 1) \div quadtree.capacity

CoincidentInsertWitness ==
    /\ Coincident /\ ~aborted
    /\ quadtree.capacity = 1 /\ Len(particles) = MaxInserts
    /\ PointDepth(quadtree) = MaxInserts - 1

\* what C17 asks of one node
NodeShape(node) ==
    /\ Len(node.points) <= node.capacity
    /\ node.is_divided =>
          /\ Len(node.points) = node.capacity
          /\ node.top_left # None /\ node.top_right # None
          /\ node.bottom_left # None /\ node.bottom_right # None
    /\ ~node.is_divided =>
          /\ node.top_left = None /\ node.top_right = None
          /\ node.bottom_left = None /\ node.bottom_right = None

\* every node divided in before is divided in after with the same points
RECURSIVE Frozen(_, _)
Frozen(before, after) ==
    before.is_divided =>
        /\ after.is_divided
        /\ after.points = before.points
        /\ \A k \in 1..4 : Frozen(Children(before)[k], Children(after)[k])

\* C17: every node holds at most capacity points; a divided node holds
\* exactly capacity points and has all four children, an undivided one has
\* none; and an insert changes the points of no node that was divided.
NodeCapacityInvariant ==
    /\ [](\A node \in Nodes(quadtree) : NodeShape(node))
    /\ [][call' = "insert" => Frozen(quadtree, quadtree')]_vars

NodeCapacityWitness ==
    /\ call = "insert" /\ ret = None /\ ~aborted /\ quadtree.capacity = 2
    /\ quadtree.is_divided /\ Len(quadtree.points) = 2
    /\ Len(Stored(quadtree)) = MaxInserts

\* the first child of a divided node, in the order of Children, whose bounds
\* (edges included) contain position p; 0 when none does
FirstChild(node, p) ==
    IF \E k \in 1..4 : Inside(Children(node)[k].boundary, p)
    THEN CHOOSE k \in 1..4 :
             /\ Inside(Children(node)[k].boundary, p)
             /\ \A j \in 1..(k - 1) : ~Inside(Children(node)[j].boundary, p)
    ELSE 0

\* after is before with the particle stored once: in the node itself while it has room, else
\* under the first child that contains it, every other child left as it was
RECURSIVE OwnedOnce(_, _, _)
OwnedOnce(before, after, particle) ==
    IF Len(before.points) < before.capacity
    THEN after = [before EXCEPT !.points = Append(@, particle)]
    ELSE LET s == IF before.is_divided THEN before ELSE subdivide(before)
             first == FirstChild(s, particle.position)
         IN  /\ first # 0
             /\ after.is_divided /\ after.points = before.points
             /\ \A k \in 1..4 :
                   IF k = first
                   THEN OwnedOnce(Children(s)[k], Children(after)[k], particle)
                   ELSE Children(after)[k] = Children(s)[k]

\* C18: an insert of a particle inside the root (capacity >= 1) returns None
\* and stores it exactly once: where the insert is delegated to the children
\* of a node, under the first of them whose bounds contain it and under no
\* later one.
SingleOwnership ==
    [][(/\ call' = "insert" /\ Len(particles') = Len(particles) + 1
        /\ quadtree.capacity >= 1
        /\ Inside(quadtree.boundary, particles'[Len(particles')].position))
       => (/\ ret' = None /\ ~aborted'
           /\ OwnedOnce(quadtree, quadtree', particles'[Len(particles')])
           /\ Len(Stored(quadtree')) = Len(Stored(quadtree)) + 1)]_vars

\* the centre of the root lies on the bounds of all four children and is
\* stored under top_left alone
SingleOwnershipWitness ==
    /\ call = "insert" /\ ret = None /\ quadtree.is_divided
    /\ Latest.position = Position(Px(602) + Half, Px(402) + Half)
    /\ \A k \in 1..4 : Inside(Children(quadtree)[k].boundary, Latest.position)
    /\ Count(Stored(quadtree), Latest) = 1
    /\ Count(Stored(Children(quadtree)[1]), Latest) = 1

====
